---- MODULE Spec2Model ----
(***************************************************************************)
(* A model of RuneCursor (rune.go): a cursor that decodes an io.Reader     *)
(* into runes through a scratch byte buffer and a linked read-ahead       *)
(* buffer, with line/column bookkeeping.                                   *)
(*                                                                         *)
(* Bytes are the integers 0..255, runes are integers, a Go slice or        *)
(* string is a sequence of bytes, and the linked list hanging off c.rabuf  *)
(* is the sequence of the runebuf nodes reachable from it.                 *)
(***************************************************************************)
EXTENDS Integers, Sequences, FiniteSets, TLC

\* ------------------------------------------------------------------ bounds
MaxLen == 3     \* codepoints in the input stream
MaxCap == 2     \* largest explicit scratch size given to NewRuneCursor
MaxN   == 2     \* largest n given to PeekN and Advance
MaxOps == 3     \* public calls made on one cursor

\* --------------------------------------------------------------- constants
RuneError      == 65533   \* utf8.RuneError, U+FFFD
DefaultBufSize == 40
NewLine        == 10      \* '\n'
NoRune         == 0 - 1   \* "the last call returned no rune" (history only)

\* The runes the inputs are built from: 'a', '\n' and U+00E9 (two bytes).
Runes == {97, NewLine, 233}

Min(a, b) == IF a < b THEN a ELSE b

Max(a, b) == IF a > b THEN a ELSE b

\* ------------------------------------------------------------ unicode/utf8
\* utf8.DecodeRune / utf8.DecodeRuneInString: the first rune of p and its
\* width; (RuneError, 0) for empty p, (RuneError, 1) for a malformed or
\* truncated encoding.
Cont(b) == b >= 128 /\ b <= 191

DecodeRune(p) ==
  LET n  == Len(p)
      bad == [r |-> RuneError, w |-> 1]
  IN
  IF n = 0 THEN [r |-> RuneError, w |-> 0]
  ELSE LET p0 == p[1] IN
    IF p0 < 128 THEN [r |-> p0, w |-> 1]
    ELSE IF p0 >= 194 /\ p0 <= 223 THEN
      IF n < 2 \/ ~Cont(p[2]) THEN bad
      ELSE [r |-> (p0 - 192) * 64 + (p[2] - 128), w |-> 2]
    ELSE IF p0 >= 224 /\ p0 <= 239 THEN
      IF n < 3 THEN bad
      ELSE IF p[2] < (IF p0 = 224 THEN 160 ELSE 128) THEN bad
      ELSE IF p[2] > (IF p0 = 237 THEN 159 ELSE 191) THEN bad
      ELSE IF ~Cont(p[3]) THEN bad
      ELSE [r |-> (p0 - 224) * 4096 + (p[2] - 128) * 64 + (p[3] - 128), w |-> 3]
    ELSE IF p0 >= 240 /\ p0 <= 244 THEN
      IF n < 4 THEN bad
      ELSE IF p[2] < (IF p0 = 240 THEN 144 ELSE 128) THEN bad
      ELSE IF p[2] > (IF p0 = 244 THEN 143 ELSE 191) THEN bad
      ELSE IF ~Cont(p[3]) \/ ~Cont(p[4]) THEN bad
      ELSE [r |-> (p0 - 240) * 262144 + (p[2] - 128) * 4096
                   + (p[3] - 128) * 64 + (p[4] - 128), w |-> 4]
    ELSE bad

\* The UTF-8 encoding of one rune below U+0800 (how a Go string literal
\* holds it).
EncodeRune(r) ==
  IF r < 128 THEN <<r>> ELSE <<192 + (r \div 64), 128 + (r % 64)>>

RECURSIVE EncodeRunes(_)
EncodeRunes(rs) ==
  IF rs = <<>> THEN <<>> ELSE EncodeRune(Head(rs)) \o EncodeRunes(Tail(rs))

\* utf8.RuneCountInString: a malformed byte counts as one rune of width 1.
RECURSIVE RuneCountInString(_)
RuneCountInString(s) ==
  IF s = <<>> THEN 0
  ELSE 1 + RuneCountInString(SubSeq(s, DecodeRune(s).w + 1, Len(s)))

\* ---------------------------------------------------------------- io.Reader
\* The source is a script of reads: each element is the data one Read
\* delivers and the error it delivers with it.  Read(p) hands over at most
\* len(p) bytes of the first element; an exhausted script is (0, io.EOF).
Read(rd, plen) ==
  IF rd = <<>> THEN [n |-> 0, err |-> TRUE, data |-> <<>>, in |-> rd]
  ELSE LET h == Head(rd) IN
    IF Len(h.data) <= plen
    THEN [n |-> Len(h.data), err |-> h.err, data |-> h.data, in |-> Tail(rd)]
    ELSE [n |-> plen, err |-> FALSE, data |-> SubSeq(h.data, 1, plen),
          in |-> <<[h EXCEPT !.data = SubSeq(h.data, plen + 1, Len(h.data))]>>
                 \o Tail(rd)]

\* ------------------------------------------------------------ construction
NewRuneCursor(rd, nn) ==
  LET n == IF nn <= 0 THEN DefaultBufSize ELSE nn IN
  [buf      |-> [i \in 1..n |-> 0],
   buflen   |-> n,
   bufpos   |-> n,
   column   |-> 1,
   in       |-> rd,
   lineno   |-> 1,
   nread    |-> 0,
   rabuf    |-> <<>>,
   rabuflen |-> 0]

\* ------------------------------------------------------ decodeIntoRuneBuffer
\* `last` is nil (lastNil) until the call has decoded its first rune; that
\* first node is stored in c.rabuf, the following ones are linked behind it.
RECURSIVE decodeLoop(_, _)
decodeLoop(c, lastNil) ==
  IF c.bufpos < c.buflen THEN
    LET d == DecodeRune(SubSeq(c.buf, c.bufpos + 1, Len(c.buf))) IN
    IF d.r = RuneError THEN c
    ELSE LET cur == [val |-> d.r, width |-> d.w] IN
      decodeLoop([c EXCEPT !.bufpos = @ + d.w,
                           !.rabuflen = @ + 1,
                           !.rabuf = IF lastNil THEN <<cur>> ELSE Append(@, cur)],
                 FALSE)
  ELSE c

decodeIntoRuneBuffer(c) == decodeLoop(c, TRUE)

\* ------------------------------------------------------------ fillRuneBuffer
EnoughRunes(c, n) == c.rabuflen >= n

ReadFailed(n, err) == n = 0 /\ err

\* the stall check never firing
Stalled_never(prevrabuflen, c) == FALSE

Stalled(prevrabuflen, c) == prevrabuflen = c.rabuflen

\* copy(c.buf, c.buf[c.bufpos:])
Rescue(c) ==
  LET rest == SubSeq(c.buf, c.bufpos + 1, Len(c.buf)) IN
  [c EXCEPT !.buf = rest \o SubSeq(c.buf, Len(rest) + 1, Len(c.buf))]

ResetBufpos(c) ==
  [c EXCEPT !.bufpos = IF c.bufpos > c.buflen THEN 0 ELSE c.buflen - c.bufpos]

Collapse(c) == [c EXCEPT !.buf = <<>>, !.buflen = 0]

\* n, err := c.in.Read(c.buf[c.bufpos:]) and the bytes it stored
Store(c, r) ==
  [c EXCEPT !.in = r.in,
            !.buf = SubSeq(c.buf, 1, c.bufpos) \o r.data
                    \o SubSeq(c.buf, c.bufpos + r.n + 1, Len(c.buf))]

\* One pass of the loop, in the order of the code: decode what the scratch
\* buffer holds (fillLoop), test for success and make room (afterDecode),
\* read (readMore), decode again and test for a stall (afterRead, afterRedecode).
RECURSIVE fillLoop(_, _, _)

\* giveUp with the error lost: the caller is told the refill succeeded
giveUp_nil(c) == [c |-> Collapse(c), err |-> FALSE]

\* "Oh, we're done. really done.": drop the scratch buffer, return the error
giveUp(c) == [c |-> Collapse(c), err |-> TRUE]

afterRedecode(c, n, prevrabuflen) ==
  IF Stalled(prevrabuflen, c) THEN giveUp(c)
  ELSE fillLoop(c, n, c.rabuflen)

afterRead(c, r, n, prevrabuflen) ==
  IF ReadFailed(r.n, r.err) THEN giveUp(Store(c, r))
  ELSE afterRedecode(
         decodeIntoRuneBuffer([Store(c, r) EXCEPT !.buflen = r.n]),
         n, prevrabuflen)

readMore(c, n, prevrabuflen) ==
  afterRead(c, Read(c.in, Len(c.buf) - c.bufpos), n, prevrabuflen)

afterDecode(c, n, prevrabuflen) ==
  IF EnoughRunes(c, n) THEN [c |-> c, err |-> FALSE]
  ELSE readMore(ResetBufpos(IF c.bufpos < c.buflen THEN Rescue(c) ELSE c),
                n, prevrabuflen)

fillLoop(c, n, prevrabuflen) ==
  afterDecode(decodeIntoRuneBuffer(c), n, prevrabuflen)

fillRuneBuffer(c, n) ==
  IF EnoughRunes(c, n) THEN [c |-> c, err |-> FALSE]
  ELSE fillLoop(c, n, c.rabuflen)

\* ------------------------------------------------------------------ Advance
IsNewline(r) == r = NewLine

\* Step without the column reset at a '\n'
Step_noReset(c, node) ==
  [c EXCEPT !.nread = @ + node.width,
            !.lineno = IF IsNewline(node.val) THEN @ + 1 ELSE @,
            !.column = @ + 1,
            !.rabuflen = @ - 1]

\* the position update for one consumed node
Step(c, node) ==
  [c EXCEPT !.nread = @ + node.width,
            !.lineno = IF IsNewline(node.val) THEN @ + 1 ELSE @,
            !.column = IF IsNewline(node.val) THEN 1 ELSE @ + 1,
            !.rabuflen = @ - 1]

RECURSIVE advanceLoop(_, _, _)
advanceLoop(c, head, left) ==
  IF left <= 0 THEN [c |-> [c EXCEPT !.rabuf = head], err |-> FALSE]
  ELSE IF head = <<>> THEN [c |-> c, err |-> TRUE]
  ELSE advanceLoop(Step(c, Head(head)), Tail(head), left - 1)

Advance(c, n) == advanceLoop(c, c.rabuf, n)

\* --------------------------------------------------------------------- Done
Done(c) ==
  LET f == fillRuneBuffer(c, 1) IN [c |-> f.c, res |-> f.err]

\* ---------------------------------------------------------------------- Cur
\* head := c.rabuf; c.Advance(1); return head.val: with a nil head Advance
\* returns its error, which Cur drops, and head.val panics.
Cur(c) ==
  LET f == fillRuneBuffer(c, 1) IN
  IF f.err THEN [c |-> f.c, res |-> RuneError, panic |-> FALSE]
  ELSE IF f.c.rabuf = <<>> THEN [c |-> f.c, res |-> NoRune, panic |-> TRUE]
  ELSE [c |-> Advance(f.c, 1).c, res |-> Head(f.c.rabuf).val, panic |-> FALSE]

\* -------------------------------------------------------------------- PeekN
\* PeekN that also moves past the head of the list, as Cur does
PeekN_consumes(c, n) ==
  LET f == fillRuneBuffer(c, n) IN
  IF f.err THEN [c |-> f.c, res |-> RuneError, panic |-> FALSE]
  ELSE IF Len(f.c.rabuf) < n THEN [c |-> f.c, res |-> NoRune, panic |-> TRUE]
  ELSE [c |-> Advance(f.c, 1).c, res |-> f.c.rabuf[n].val, panic |-> FALSE]

\* cur := c.rabuf, then n-1 times cur = cur.next, then cur.val: a list
\* shorter than n nodes ends in a nil dereference.
PeekN(c, n) ==
  LET f == fillRuneBuffer(c, n) IN
  IF f.err THEN [c |-> f.c, res |-> RuneError, panic |-> FALSE]
  ELSE IF Len(f.c.rabuf) < n THEN [c |-> f.c, res |-> NoRune, panic |-> TRUE]
  ELSE [c |-> f.c, res |-> f.c.rabuf[n].val, panic |-> FALSE]

Peek(c) == PeekN(c, 1)

\* ---------------------------------------------------------------- hasPrefix
RECURSIVE prefixLoop(_, _, _, _, _, _)
prefixLoop(c, cur, s, nl, col, consume) ==
  IF cur = <<>> THEN [c |-> c, res |-> FALSE]
  ELSE
    LET d == DecodeRune(s) IN
    IF d.r = RuneError THEN [c |-> c, res |-> FALSE]
    ELSE IF Head(cur).val # d.r THEN [c |-> c, res |-> FALSE]
    ELSE
      LET rest == SubSeq(s, d.w + 1, Len(s))
          nl2  == IF IsNewline(d.r) THEN nl + 1 ELSE nl
          col2 == IF IsNewline(d.r) THEN 1 ELSE col + 1
      IN
      IF Len(rest) = 0 THEN
        [c |-> IF consume
               THEN [c EXCEPT !.rabuf = Tail(cur), !.column = col2,
                              !.lineno = @ + nl2]
               ELSE c,
         res |-> TRUE]
      ELSE prefixLoop(c, Tail(cur), rest, nl2, col2, consume)

hasPrefix(c, s, n, consume) ==
  LET f == fillRuneBuffer(c, n) IN
  IF f.err THEN [c |-> f.c, res |-> FALSE]
  ELSE prefixLoop(f.c, f.c.rabuf, s, 0, f.c.column, consume)

\* HasPrefix with the consume flag set
HasPrefix_consumes(c, s) == hasPrefix(c, s, RuneCountInString(s), TRUE)

HasPrefix(c, s) == hasPrefix(c, s, RuneCountInString(s), FALSE)

\* Consume asking for as many runes as s has bytes
Consume_countsBytes(c, s) == hasPrefix(c, s, Len(s), TRUE)

Consume(c, s) == hasPrefix(c, s, RuneCountInString(s), TRUE)

LineNumber(c) == c.lineno

Column(c) == c.column

\* ============================================================ state machine
VARIABLES
  buf, buflen, bufpos, column, in, lineno, nread, rabuf, rabuflen, \* RuneCursor
  panicked,   \* a call dereferenced a nil node: the program has stopped
  src,        \* the bytes the source holds in all (fixed at construction)
  nn,         \* the size given to NewRuneCursor (0: none given)
  splitAt,    \* 0: the source delivers src in one read; k: k bytes, then the rest
  lastOp,     \* the last public call, its arguments and what it returned
  lastN, lastS, lastRune, lastOK,
  hist,       \* "cur": only Cur so far; "curdone": then one Done;
              \* "peekn": only PeekN(lastN) so far; "mixed"
  wasExhausted, \* the scratch buffer had collapsed before the last call
  consumed,   \* the runes of the nodes the consuming calls have walked over
  nops,       \* public calls made
  budget,     \* public calls the run may make in all
  errs,       \* the source returns io.EOF together with its last bytes
  pc,         \* where a stepwise fillRuneBuffer stands: "idle", "top", "read"
  prevrabuflen, \* fillRuneBuffer's local of that name
  start,      \* the cursor as the stepwise fillRuneBuffer found it, and
  reads       \* what its reads returned (forgotten at the next public call)

cursor == <<buf, buflen, bufpos, column, in, lineno, nread, rabuf, rabuflen>>
vars == <<buf, buflen, bufpos, column, in, lineno, nread, rabuf, rabuflen,
          panicked, src, nn, splitAt, lastOp, lastN, lastS, lastRune, lastOK,
          hist, wasExhausted, consumed, nops, budget,
          errs, pc, prevrabuflen, start, reads>>

Self ==
  [buf |-> buf, buflen |-> buflen, bufpos |-> bufpos, column |-> column,
   in |-> in, lineno |-> lineno, nread |-> nread, rabuf |-> rabuf,
   rabuflen |-> rabuflen]

Is(c) ==
  /\ buf = c.buf /\ buflen = c.buflen /\ bufpos = c.bufpos
  /\ column = c.column /\ in = c.in /\ lineno = c.lineno
  /\ nread = c.nread /\ rabuf = c.rabuf /\ rabuflen = c.rabuflen

Becomes(c) ==
  /\ buf' = c.buf /\ buflen' = c.buflen /\ bufpos' = c.bufpos
  /\ column' = c.column /\ in' = c.in /\ lineno' = c.lineno
  /\ nread' = c.nread /\ rabuf' = c.rabuf /\ rabuflen' = c.rabuflen

\* the source as a script of reads
Script(s, k) ==
  IF s = <<>> THEN <<>>
  ELSE IF k = 0 THEN <<[data |-> s, err |-> FALSE]>>
  ELSE <<[data |-> SubSeq(s, 1, k), err |-> FALSE],
         [data |-> SubSeq(s, k + 1, Len(s)), err |-> FALSE]>>

RuneSeqs(m) == UNION {[1..j -> Runes] : j \in 0..m}

\* the inputs: every stream of up to MaxLen runes
Inputs == RuneSeqs(MaxLen)

\* the sizes given to NewRuneCursor: none (0), 1..MaxCap, and 4
Sizes == (0..MaxCap) \cup {4}

\* the scratch buffer has collapsed to capacity 0
Exhausted == Len(buf) = 0

\* the strings given to HasPrefix and Consume: "", "a", "\na", "\u00e9", and a
\* malformed one (a lone lead byte)
Strings ==
  {EncodeRunes(rs) : rs \in {<<>>, <<97>>, <<NewLine, 97>>, <<233>>}}
  \cup {<<195>>}

\* the same script, the last read returning io.EOF with its bytes
ScriptErr(s, k) ==
  LET sc == Script(s, k) IN
  [i \in 1..Len(sc) |-> [sc[i] EXCEPT !.err = (i = Len(sc))]]

InitFor(calls, e) ==
  /\ budget = calls
  /\ errs = e
  /\ \E rs \in Inputs : src = EncodeRunes(rs)
  /\ nn \in Sizes
  /\ splitAt \in 0..(IF Len(src) = 0 THEN 0 ELSE Len(src) - 1)
  /\ Is(NewRuneCursor(IF e THEN ScriptErr(src, splitAt)
                            ELSE Script(src, splitAt), nn))
  /\ pc = "idle" /\ prevrabuflen = 0 /\ reads = <<>>
  /\ start = NewRuneCursor(<<>>, nn)
  /\ panicked = FALSE
  /\ lastOp = "new" /\ lastN = 0 /\ lastS = <<>>
  /\ lastRune = NoRune /\ lastOK = TRUE
  /\ hist = "cur"
  /\ wasExhausted = FALSE
  /\ consumed = <<>>
  /\ nops = 0

InitWith(calls) == InitFor(calls, FALSE)

Init == InitWith(MaxOps)

\* the same cursors, followed for one call more
InitDeep == InitWith(MaxOps + 1)

\* ------------------------------------------------------------------ actions
\* what a call leaves behind in the history variables
Called(op, n, s, rune, ok) ==
  /\ lastOp' = op /\ lastN' = n /\ lastS' = s
  /\ lastRune' = rune /\ lastOK' = ok
  /\ nops' = nops + 1
  /\ wasExhausted' = Exhausted
  /\ UNCHANGED <<src, nn, splitAt, budget>>
  /\ UNCHANGED <<errs, pc, prevrabuflen>>
  /\ start' = NewRuneCursor(<<>>, nn) /\ reads' = <<>>

CanCall == ~panicked /\ nops < budget /\ pc = "idle"

\* the runes of the first k nodes of the read-ahead list
Vals(list, k) == [i \in 1..Min(k, Len(list)) |-> list[i].val]

\* the runes of a string
RECURSIVE RunesOf(_)
RunesOf(s) ==
  IF s = <<>> THEN <<>>
  ELSE <<DecodeRune(s).r>> \o RunesOf(SubSeq(s, DecodeRune(s).w + 1, Len(s)))

DoCur ==
  /\ CanCall
  /\ LET r == Cur(Self) IN
     /\ Becomes(r.c)
     /\ panicked' = r.panic
     /\ Called("Cur", 0, <<>>, r.res, ~r.panic)
     /\ hist' = IF hist = "cur" THEN "cur" ELSE "mixed"
     /\ consumed' = IF r.panic \/ r.res = RuneError THEN consumed
                    ELSE Append(consumed, r.res)

DoDone ==
  /\ CanCall
  /\ LET r == Done(Self) IN
     /\ Becomes(r.c)
     /\ Called("Done", 0, <<>>, NoRune, r.res)
     /\ hist' = IF hist = "cur" THEN "curdone" ELSE "mixed"
     /\ UNCHANGED <<panicked, consumed>>

DoPeek ==
  /\ CanCall
  /\ LET r == Peek(Self) IN
     /\ Becomes(r.c)
     /\ panicked' = r.panic
     /\ Called("Peek", 1, <<>>, r.res, ~r.panic)
     /\ hist' = IF nops = 0 \/ (hist = "peekn" /\ lastN = 1)
                THEN "peekn" ELSE "mixed"
     /\ UNCHANGED consumed

DoPeekN ==
  /\ CanCall
  /\ \E n \in 1..MaxN :
       LET r == PeekN(Self, n) IN
       /\ Becomes(r.c)
       /\ panicked' = r.panic
       /\ Called("PeekN", n, <<>>, r.res, ~r.panic)
       /\ hist' = IF nops = 0 \/ (hist = "peekn" /\ lastN = n)
                  THEN "peekn" ELSE "mixed"
       /\ UNCHANGED consumed

DoAdvance ==
  /\ CanCall
  /\ \E n \in 0..MaxN :
       LET r == Advance(Self, n) IN
       /\ Becomes(r.c)
       /\ Called("Advance", n, <<>>, NoRune, ~r.err)
       /\ hist' = "mixed"
       /\ consumed' = consumed \o Vals(rabuf, n)
       /\ UNCHANGED panicked

DoHasPrefix ==
  /\ CanCall
  /\ \E s \in Strings :
       LET r == HasPrefix(Self, s) IN
       /\ Becomes(r.c)
       /\ Called("HasPrefix", 0, s, NoRune, r.res)
       /\ hist' = "mixed"
       /\ UNCHANGED <<panicked, consumed>>

DoConsume ==
  /\ CanCall
  /\ \E s \in Strings :
       LET r == Consume(Self, s) IN
       /\ Becomes(r.c)
       /\ Called("Consume", 0, s, NoRune, r.res)
       /\ hist' = "mixed"
       /\ consumed' = IF r.res THEN consumed \o RunesOf(s) ELSE consumed
       /\ UNCHANGED panicked

Next ==
  \/ DoCur
  \/ DoDone
  \/ DoPeek
  \/ DoPeekN
  \/ DoAdvance
  \/ DoHasPrefix
  \/ DoConsume

Spec == Init /\ [][Next]_vars

SpecDeep == InitDeep /\ [][Next]_vars

\* ------------------------------------------- a source that ends with an error
\* The same cursors over sources that return io.EOF with their last bytes.
InitErr == InitFor(MaxOps, TRUE)

SpecErr == InitErr /\ [][Next]_vars

\* -------------------------------------------- fillRuneBuffer, step by step
\* fillRuneBuffer taken one half of a loop pass at a time, over a source
\* that may return anything an io.Reader may: no byte, whole codepoints
\* ("a", "aa", U+00E9), the first or the second byte of U+00E9 alone, or a
\* codepoint and the first byte of the next, never more than the slice
\* holds, each with or without an error.
Chunks ==
  {<<>>, <<97>>, <<97, 97>>, <<195, 169>>, <<195>>, <<169>>, <<97, 195>>}

ReadResults(plen) ==
  {[n |-> Len(d), err |-> e, data |-> d, in |-> in] :
     d \in {SubSeq(ch, 1, Min(plen, Len(ch))) : ch \in Chunks},
     e \in BOOLEAN}

InitFill ==
  /\ budget = MaxOps
  /\ errs = FALSE
  /\ src = <<>> /\ splitAt = 0
  /\ nn \in Sizes
  /\ Is(NewRuneCursor(<<>>, nn))
  /\ pc = "idle" /\ prevrabuflen = 0 /\ reads = <<>>
  /\ start = NewRuneCursor(<<>>, nn)
  /\ panicked = FALSE
  /\ lastOp = "new" /\ lastN = 0 /\ lastS = <<>>
  /\ lastRune = NoRune /\ lastOK = TRUE
  /\ hist = "mixed"
  /\ wasExhausted = FALSE
  /\ consumed = <<>>
  /\ nops = 0

\* what a step of the loop leaves alone
FillKeeps ==
  /\ UNCHANGED <<panicked, src, nn, splitAt, lastOp, lastN, lastS, lastRune>>
  /\ UNCHANGED <<hist, wasExhausted, consumed, nops, budget, errs, start>>

\* the call, up to the loop: lines 83-89
BeginFill ==
  /\ CanCall
  /\ \E n \in 1..MaxN :
       /\ lastOp' = "fill" /\ lastN' = n /\ lastOK' = TRUE
       /\ nops' = nops + 1
       /\ start' = Self /\ reads' = <<>>
       /\ pc' = IF EnoughRunes(Self, n) THEN "idle" ELSE "top"
       /\ prevrabuflen' = rabuflen
       /\ UNCHANGED cursor
       /\ UNCHANGED <<panicked, src, nn, splitAt, lastS, lastRune>>
       /\ UNCHANGED <<hist, wasExhausted, consumed, budget, errs>>

\* the first half of a pass: lines 93-119
FillTop ==
  /\ pc = "top"
  /\ LET c1 == decodeIntoRuneBuffer(Self) IN
     IF EnoughRunes(c1, lastN)
     THEN Becomes(c1) /\ pc' = "idle" /\ lastOK' = TRUE
     ELSE /\ Becomes(ResetBufpos(IF c1.bufpos < c1.buflen
                                 THEN Rescue(c1) ELSE c1))
          /\ pc' = "read" /\ lastOK' = lastOK
  /\ UNCHANGED <<prevrabuflen, reads>>
  /\ FillKeeps

\* the second half of a pass: lines 120-138
FillRead ==
  /\ pc = "read"
  /\ \E r \in ReadResults(Len(buf) - bufpos) :
       /\ reads' = Append(reads, [data |-> r.data, err |-> r.err])
       /\ IF ReadFailed(r.n, r.err)
          THEN /\ Becomes(giveUp(Store(Self, r)).c)
               /\ pc' = "idle" /\ lastOK' = ~giveUp(Store(Self, r)).err
               /\ UNCHANGED prevrabuflen
          ELSE LET c3 == decodeIntoRuneBuffer(
                           [Store(Self, r) EXCEPT !.buflen = r.n]) IN
               IF Stalled(prevrabuflen, c3)
               THEN /\ Becomes(giveUp(c3).c)
                    /\ pc' = "idle" /\ lastOK' = ~giveUp(c3).err
                    /\ UNCHANGED prevrabuflen
               ELSE /\ Becomes(c3)
                    /\ pc' = "top" /\ lastOK' = lastOK
                    /\ prevrabuflen' = c3.rabuflen
  /\ FillKeeps

NextFill ==
  \/ BeginFill
  \/ FillTop
  \/ FillRead
  \/ DoAdvance

\* the loop is run to its end: the caller is blocked in it, and a Read that
\* was called returns
SpecFill ==
  InitFill /\ [][NextFill]_vars /\ WF_vars(FillTop) /\ WF_vars(FillRead)

\* =================================================================== claims
\* The codepoints of the whole source, in order.
Stream == RunesOf(src)

\* the cursor after j more calls of Cur
RECURSIVE CurTimes(_, _)
CurTimes(c, j) == IF j <= 0 THEN c ELSE CurTimes(Cur(c).c, j - 1)

\* what the next j calls of Cur return, one after the other (a panic ends it)
RECURSIVE Drain(_, _)
Drain(c, j) ==
  IF j <= 0 THEN <<>>
  ELSE IF Cur(c).panic THEN <<"panic">>
  ELSE <<Cur(c).res>> \o Drain(Cur(c).c, j - 1)

\* C1: on a fresh cursor over a source that delivers valid UTF-8 S in full
\* reads, the i-th call of Cur returns the i-th codepoint of S, and Done
\* called after the last one returns true.  (Stated for the scratch sizes the
\* design allows: the default, or at least 4 bytes.)
C1_CurReproducesStream ==
  (splitAt = 0 /\ (nn = 0 \/ nn >= 4))
    => /\ (hist = "cur" /\ lastOp = "Cur" /\ nops <= Len(Stream))
            => (~panicked /\ lastRune = Stream[nops])
       /\ (hist = "curdone" /\ lastOp = "Done" /\ nops = Len(Stream) + 1)
            => lastOK

\* C2: when the source delivers S in two reads (splitAt bytes, then the
\* rest), the i-th call of Cur returns what it returns when the source
\* delivers S in a single read.
C2_SplitReadSameAsSingleRead ==
  (splitAt > 0 /\ hist = "cur" /\ lastOp = "Cur")
    => LET one == Cur(CurTimes(NewRuneCursor(Script(src, 0), nn), nops - 1))
       IN lastRune = one.res /\ panicked = one.panic

\* C3: a PeekN(n) that succeeds returns the n-th codepoint of the stream
\* that the consuming calls have not consumed yet.
C3_PeekNReturnsNthUnconsumed ==
  (lastOp \in {"Peek", "PeekN"} /\ ~panicked /\ lastRune # RuneError)
    => /\ Len(consumed) + lastN <= Len(Stream)
       /\ lastRune = Stream[Len(consumed) + lastN]

\* the number of '\n' among the runes rs, and the number of runes after the
\* last '\n' (all of them if there is none)
NewLines(rs) == Cardinality({i \in 1..Len(rs) : rs[i] = NewLine})

SinceNewLine(rs) ==
  Cardinality({i \in 1..Len(rs) : \A j \in i..Len(rs) : rs[j] # NewLine})

\* C4: LineNumber() is 1 plus the number of '\n' consumed so far and Column()
\* is 1 plus the number of codepoints consumed since the last consumed '\n',
\* whatever calls consumed them (Cur, Advance, Consume).
C4_LineColumnCountConsumed ==
  /\ LineNumber(Self) = 1 + NewLines(consumed)
  /\ Column(Self) = 1 + SinceNewLine(consumed)

\* C4 witness: a Consume has matched "\na" after another rune was consumed.
W4_ConsumedAcrossNewLine ==
  /\ lastOp = "Consume" /\ lastOK /\ lastS = <<NewLine, 97>>
  /\ Len(consumed) = 3
  /\ lineno = 2 /\ column = 2

\* C5: a Consume(s) that returns true leaves the cursor where as many calls
\* of Cur as s has codepoints would have left it: the next Cur returns the
\* same.
C5_ConsumeLikeCurs ==
  [][(lastOp' = "Consume" /\ lastOK')
       => LET want == Cur(CurTimes(Self, RuneCountInString(lastS')))
              got  == Cur(Self')
          IN got.panic = want.panic /\ got.res = want.res]_vars

\* C6: a Consume(s) or HasPrefix(s) that returns false leaves line, column
\* and the unconsumed codepoints as they were: the following calls of Cur
\* return what they would have returned without it.
C6_FailedMatchLeavesCursor ==
  [][(lastOp' \in {"Consume", "HasPrefix"} /\ ~lastOK')
       => /\ LineNumber(Self') = LineNumber(Self)
          /\ Column(Self') = Column(Self)
          /\ Drain(Self', MaxLen + 1) = Drain(Self, MaxLen + 1)]_vars

\* C7: Peek, PeekN and HasPrefix leave line, column and the count of bytes
\* consumed as they were, whatever they return.
C7_PeekKeepsPosition ==
  [][lastOp' \in {"Peek", "PeekN", "HasPrefix"}
       => /\ LineNumber(Self') = LineNumber(Self)
          /\ Column(Self') = Column(Self)
          /\ nread' = nread]_vars

\* C7 witness: after a consumed '\n', a HasPrefix matched runes that a second
\* read had to bring in.
W7_HasPrefixAfterNewLine ==
  /\ lastOp = "HasPrefix" /\ lastOK
  /\ lineno = 2 /\ nread = 1 /\ splitAt > 0 /\ in = <<>>

\* the bytes the cursor has not decoded yet: the rest of the scratch buffer
\* and what the source still holds
RECURSIVE Flatten(_)
Flatten(rd) == IF rd = <<>> THEN <<>> ELSE Head(rd).data \o Flatten(Tail(rd))

Undecoded ==
  (IF bufpos < buflen THEN SubSeq(buf, bufpos + 1, buflen) ELSE <<>>)
  \o Flatten(in)

\* C8: Done() returns true exactly when the read-ahead list is empty and the
\* source yields no further codepoint.
C8_DoneIffNothingLeft ==
  lastOp = "Done"
    => (lastOK <=> (rabuf = <<>> /\ DecodeRune(Undecoded).r = RuneError))

\* C9: once the scratch buffer has collapsed, it stays collapsed, every later
\* Cur, Peek and PeekN returns utf8.RuneError, every later HasPrefix and
\* Consume returns false and Done returns true.
C9_ExhaustedAbsorbing ==
  [][Exhausted
       => /\ Exhausted'
          /\ lastOp' \in {"Cur", "Peek", "PeekN"}
               => (~panicked' /\ lastRune' = RuneError)
          /\ lastOp' \in {"HasPrefix", "Consume"} => ~lastOK'
          /\ lastOp' = "Done" => lastOK']_vars

\* C9 as amended: once the scratch buffer has collapsed, it stays collapsed,
\* no rune is added to the read-ahead count, and every call that asks for
\* more runes than that count records fails: Cur, Peek and PeekN return
\* utf8.RuneError, HasPrefix and Consume return false, Done returns true.
C9_ExhaustedNoRefill ==
  [][Exhausted
       => /\ Exhausted'
          /\ rabuflen' <= rabuflen
          /\ (lastOp' = "Cur" /\ rabuflen < 1)
               => (~panicked' /\ lastRune' = RuneError)
          /\ (lastOp' \in {"Peek", "PeekN"} /\ rabuflen < lastN')
               => (~panicked' /\ lastRune' = RuneError)
          /\ (lastOp' \in {"HasPrefix", "Consume"}
                /\ rabuflen < RuneCountInString(lastS'))
               => ~lastOK'
          /\ (lastOp' = "Done" /\ rabuflen < 1) => lastOK']_vars

\* C9 witness: a Cur on a collapsed cursor, after codepoints were consumed,
\* returned the sentinel.
W9_CurAfterCollapse ==
  /\ wasExhausted /\ Exhausted
  /\ lastOp = "Cur" /\ lastRune = RuneError
  /\ consumed # <<>>

\* C10: in a state where the refill for one codepoint fails, Cur and PeekN(1)
\* return utf8.RuneError without a panic, Done returns true, and Cur leaves
\* line, column, bytes consumed and the read-ahead list as they were.
C10_FailedRefillConsumesNothing ==
  [][fillRuneBuffer(Self, 1).err
       => /\ lastOp' = "Cur"
               => /\ ~panicked' /\ lastRune' = RuneError
                  /\ lineno' = lineno /\ column' = column /\ nread' = nread
                  /\ rabuf' = rabuf /\ rabuflen' = rabuflen
          /\ (lastOp' = "Peek" \/ (lastOp' = "PeekN" /\ lastN' = 1))
               => (~panicked' /\ lastRune' = RuneError)
          /\ lastOp' = "Done" => lastOK']_vars

\* C11: whenever HasPrefix(s) is called it returns true exactly when
\* Consume(s), called on a copy of the state it was called in, returns true,
\* and the other way round.
C11_HasPrefixDecidesLikeConsume ==
  [][/\ lastOp' = "HasPrefix" => (lastOK' <=> Consume(Self, lastS').res)
     /\ lastOp' = "Consume" => (lastOK' <=> HasPrefix(Self, lastS').res)]_vars

\* C11 witness: after a consumed rune, HasPrefix matched the two-byte
\* codepoint, which a second read of the source had to bring in.
W11_MatchNeedsRefill ==
  /\ lastOp = "HasPrefix" /\ lastOK /\ lastS = EncodeRune(233)
  /\ consumed # <<>> /\ splitAt > 0 /\ in = <<>>

\* C12: a PeekN(n) that directly follows a PeekN(n) with the same n returns
\* what the first one returned, a codepoint or the sentinel alike.
C12_PeekNIdempotent ==
  [][(lastOp \in {"Peek", "PeekN"} /\ lastOp' \in {"Peek", "PeekN"}
        /\ lastN' = lastN)
       => (~panicked' /\ lastRune' = lastRune)]_vars

\* C12 witness: PeekN(2) was called as often as the run allows, and nothing
\* else, and returned the second codepoint every time.
W12_PeekNRepeated ==
  /\ hist = "peekn" /\ nops = budget /\ nops >= 3
  /\ lastOp = "PeekN" /\ lastN = 2 /\ lastRune = 97
  /\ Len(Stream) >= 2 /\ Stream[2] = 97

\* the bytes the nodes of a list stand for
RECURSIVE Widths(_)
Widths(list) ==
  IF list = <<>> THEN 0 ELSE Head(list).width + Widths(Tail(list))

\* C13: an Advance(n) that fails for want of entries reads nothing from the
\* source, has moved bytes consumed, line and column over the entries the
\* list held, and has taken those entries off the head of the list.
C13_FailedAdvanceDropsWalked ==
  [][(lastOp' = "Advance" /\ ~lastOK')
       => LET walked == Vals(rabuf, Len(rabuf)) IN
          /\ in' = in /\ buf' = buf
          /\ nread' = nread + Widths(rabuf)
          /\ lineno' = lineno + NewLines(walked)
          /\ column' = IF NewLines(walked) = 0 THEN column + Len(walked)
                       ELSE 1 + SinceNewLine(walked)
          /\ rabuf' = <<>>]_vars

\* C14: in every reachable state 0 <= bufpos <= buflen <= capacity of the
\* scratch buffer.
C14_ScratchBounds ==
  /\ 0 <= bufpos
  /\ bufpos <= buflen
  /\ buflen <= Len(buf)

\* C15: in every reachable state rabuflen is the number of nodes linked from
\* rabuf, and is not negative.
C15_RabuflenCountsNodes ==
  /\ rabuflen = Len(rabuf)
  /\ rabuflen >= 0

\* C16: in every reachable state nread is the number of bytes of the
\* codepoints consumed so far, whichever of Cur, Advance and Consume consumed
\* them, and with the widths of the queued nodes it does not exceed the bytes
\* of the source.
C16_NreadCountsConsumedBytes ==
  /\ nread = Len(EncodeRunes(consumed))
  /\ nread + Widths(rabuf) <= Len(src)

\* C17: with a scratch buffer of one byte, the i-th call of Cur returns the
\* i-th codepoint of the stream, multi-byte codepoints included: U+00E9 and
\* then the one-byte codepoint behind it.
C17_OneByteScratchDelivers ==
  (nn = 1 /\ splitAt = 0 /\ hist = "cur" /\ lastOp = "Cur"
     /\ nops <= Len(Stream))
    => (~panicked /\ lastRune = Stream[nops])

\* The stepwise loop computes what fillRuneBuffer computes: a refill that has
\* returned left the cursor, and returned the error, that fillRuneBuffer gives
\* on the cursor it started from over a source scripted with the same reads.
StepwiseFillIsFillRuneBuffer ==
  (lastOp = "fill" /\ pc = "idle")
    => LET f == fillRuneBuffer([start EXCEPT !.in = reads], lastN) IN
       /\ f.err = ~lastOK
       /\ f.c = Self

\* C18: every fillRuneBuffer(n) returns, whatever the source returns: a loop
\* pass that does not return leaves the queue count above what it was when
\* the pass began, a pass whose read and decoding add no codepoint returns
\* an error, and a call makes no more reads than it was short of codepoints.
C18_FillTerminates ==
  /\ [][(pc = "read" /\ pc' = "top") => rabuflen' > prevrabuflen]_vars
  /\ [][(pc = "read" /\ rabuflen' = prevrabuflen)
          => (pc' = "idle" /\ ~lastOK')]_vars
  /\ [](lastOp = "fill" => Len(reads) <= Max(lastN - start.rabuflen, 0))
  /\ (pc # "idle") ~> (pc = "idle")

\* C18 witness: a refill for two codepoints got one from its first read and
\* none from its second, which returned no byte and no error, and returned
\* an error.
W18_StalledAfterProgress ==
  /\ lastOp = "fill" /\ pc = "idle" /\ ~lastOK /\ lastN = 2
  /\ Len(reads) = 2
  /\ reads[2] = [data |-> <<>>, err |-> FALSE]
  /\ rabuflen = 1 /\ Exhausted

\* Over a source that returns io.EOF with its last bytes, every Cur returns
\* what it returns over the source that delivers the same bytes in the same
\* reads without the error.
ErrorFlagChangesNothing ==
  (errs /\ hist = "cur" /\ lastOp = "Cur")
    => LET plain == Cur(CurTimes(NewRuneCursor(Script(src, splitAt), nn),
                                 nops - 1))
       IN lastRune = plain.res /\ panicked = plain.panic

\* C19: over a source that returns an error together with its last bytes,
\* once that read has been made the i-th call of Cur has returned the i-th
\* codepoint of the stream, those of the last read included, and Done has
\* returned true only after all of them.
C19_ErrorWithDataDelivered ==
  (errs /\ in = <<>>)
    => /\ (hist = "cur" /\ lastOp = "Cur" /\ nops <= Len(Stream))
            => (~panicked /\ lastRune = Stream[nops])
       /\ (hist = "curdone" /\ lastOp = "Done")
            => (lastOK <=> nops - 1 >= Len(Stream))

\* C20: no sequence of public calls dereferences a nil node.
C20_NoNilDereference == ~panicked

====
